---- MODULE Spec2Model ----
(***************************************************************************)
(* Model of subdomain_recon.py: sequential invocation of the enumeration   *)
(* tools, aggregation and suffix filtering of their output, concurrent DNS *)
(* resolution with the HTTP check done by the collecting thread, level     *)
(* extraction, and the four report files.                                  *)
(*                                                                         *)
(* Python strings are sequences of one-character strings, so that strip,   *)
(* splitlines, split, join, the `in` test, endswith and sorted are         *)
(* computed character by character as the interpreter computes them.       *)
(***************************************************************************)
EXTENDS Integers, Sequences, FiniteSets, TLC

\* ------------------------------------------------------------- strings

\* Python's None.
None == "None"

\* The characters that occur in the modelled texts, in code-point order.
CharOrder == <<"\n", " ", ".", "/", "a", "b", "c", "e", "f", "i", "l", "m",
               "n", "o", "p", "r", "s", "t", "u", "v", "w", "x">>

\* Rank of a character in code-point order (str comparison compares code points).
CharRank(ch) == CHOOSE i \in 1..Len(CharOrder) : CharOrder[i] = ch

\* str.isspace for one character.
IsSpace(ch) == ch \in {" ", "\n"}

\* s < t for two str values: the first differing code point decides, a proper
\* prefix is smaller.
RECURSIVE StrLess(_, _)
StrLess(s, t) ==
    IF t = <<>> THEN FALSE
    ELSE IF s = <<>> THEN TRUE
    ELSE IF Head(s) = Head(t) THEN StrLess(Tail(s), Tail(t))
    ELSE CharRank(Head(s)) < CharRank(Head(t))

\* str.lstrip()
RECURSIVE LStrip(_)
LStrip(s) == IF s # <<>> /\ IsSpace(Head(s)) THEN LStrip(Tail(s)) ELSE s

\* str.rstrip()
RECURSIVE RStrip(_)
RStrip(s) ==
    IF s # <<>> /\ IsSpace(s[Len(s)]) THEN RStrip(SubSeq(s, 1, Len(s) - 1)) ELSE s

\* str.strip()
Strip(s) == RStrip(LStrip(s))

\* `sub in s`
Contains(sub, s) ==
    \E i \in 0..(Len(s) - Len(sub)) : SubSeq(s, i + 1, i + Len(sub)) = sub

\* s.endswith(suf)
EndsWith(s, suf) ==
    /\ Len(s) >= Len(suf)
    /\ SubSeq(s, Len(s) - Len(suf) + 1, Len(s)) = suf

\* The positions of the separator character sep in s.
Seps(s, sep) == {i \in 1..Len(s) : s[i] = sep}

\* The piece of s that starts after position p (0, or the position of a
\* separator): it runs to the next separator, or to the end of s.
PieceAfter(s, sep, p) ==
    SubSeq(s, p + 1,
           (CHOOSE e \in Seps(s, sep) \cup {Len(s) + 1} :
               e > p /\ \A q \in Seps(s, sep) : q > p => e <= q) - 1)

\* The pieces of s between the occurrences of sep, in order: one more piece
\* than there are separators, empty pieces included. Piece k starts after the
\* k-th smallest of position 0 and the separators.
Pieces(s, sep) ==
    [k \in 1..(Cardinality(Seps(s, sep)) + 1) |->
        CHOOSE piece \in {PieceAfter(s, sep, p) :
                            p \in {q \in {0} \cup Seps(s, sep) :
                                     Cardinality({r \in {0} \cup Seps(s, sep) : r < q})
                                        = k - 1}} : TRUE]

\* out.splitlines(): the lines without their line breaks; a line break at the
\* end of the text opens no further line, and "" has no line.
SplitLines(text) ==
    LET all == Pieces(text, "\n")
    IN  IF all[Len(all)] = <<>> THEN SubSeq(all, 1, Len(all) - 1) ELSE all

\* sub.split('.')
SplitDots(s) == Pieces(s, ".")

\* '.'.join(parts)
RECURSIVE JoinDots(_)
JoinDots(parts) ==
    IF parts = <<>> THEN <<>>
    ELSE IF Len(parts) = 1 THEN parts[1]
    ELSE parts[1] \o <<".">> \o JoinDots(Tail(parts))

\* parts[-n:] for 1 <= n
LastN(parts, n) ==
    IF Len(parts) <= n THEN parts ELSE SubSeq(parts, Len(parts) - n + 1, Len(parts))

\* Mutation of Sorted: the list in descending order (sorted(..., reverse=True)).
SortedDescending(S) ==
    [k \in 1..Cardinality(S) |->
        CHOOSE x \in S : Cardinality({y \in S : StrLess(x, y)}) = k - 1]

\* sorted(S) for a set of str: the ascending list.
Sorted(S) ==
    [k \in 1..Cardinality(S) |->
        CHOOSE x \in S : Cardinality({y \in S : StrLess(y, x)}) = k - 1]

\* The elements of a list.
Range(f) == {f[i] : i \in DOMAIN f}

\* -------------------------------------------------------------- inputs

\* The two values argparse accepts for -d/--domain.
testfire_net == <<"t", "e", "s", "t", "f", "i", "r", "e", ".", "n", "e", "t">>

vulnweb_com == <<"v", "u", "l", "n", "w", "e", "b", ".", "c", "o", "m">>

Domains == {testfire_net, vulnweb_com}

\* The keys of the tools dict, in insertion order (amass is commented out).
ToolNames == <<"subscraper", "subfinder", "assetfinder", "sublist3r">>

\* Largest index of the standard-output texts a tool may print.
MaxOutput == 2

\* What an enumeration tool may print for target D. Text 0 is no output. Text 1
\* names the target and, on a padded line, a deeper subdomain. Text 2 has a
\* line about another domain, an empty line, a line that mentions D before a
\* path, and a last line, not ended by a line break, with a name that ends
\* with D without being one of its subdomains. The text after those names the
\* target alone.
OutputText(k, D) ==
    CASE k = 0 -> <<>>
      [] k = 1 -> D \o <<"\n">>
                  \o <<" ", "a", ".", "w", "w", "w", ".">> \o D \o <<" ", "\n">>
      [] k = 2 -> <<"e", "v", "i", "l", ".", "c", "o", "m", "\n">>
                  \o <<"\n">>
                  \o D \o <<"/", "x", "\n">>
                  \o <<"n", "o", "t">> \o D
      [] OTHER -> D \o <<"\n">>

Outputs(D) == {OutputText(k, D) : k \in 0..MaxOutput}

\* max_workers of the ThreadPoolExecutor.
max_workers == 20

\* Pool widths explored: the source's 20, and widths below the number of
\* candidates, where submitted tasks wait for a free worker.
Widths == {1, 2, max_workers}

\* What the environment may answer. Every external call returns or raises.
Ip == "ip"

CName == "cname"

\* subprocess.run(...'--help'...) for the availability check.
CheckOutcomes == [raised : BOOLEAN]

\* subprocess.run of the tool itself: its stdout (whatever the exit code), or an
\* exception (spawn error, timeout).
RunOutcomes(D) ==
    [raised : {FALSE}, stdout : Outputs(D)] \cup [raised : {TRUE}, stdout : {<<>>}]

\* gethostbyname and gethostbyname_ex.
ResolverOutcomes == [host_raised : BOOLEAN, ex_raised : BOOLEAN]

\* requests.get: a response with a status code, or an exception.
HttpOutcomes ==
    [raised : {FALSE}, status_code : {200, 600}] \cup [raised : {TRUE}, status_code : {0}]

\* None in the integer-valued slot http_status.
NoStatus == -1

\* ------------------------------------------------------ pure functions

\* check_tool: True unless subprocess.run raised.
check_tool(o) == ~o.raised

\* run_command: the captured stdout, or "" when subprocess.run raised. A non-zero
\* exit code only logs a warning.
run_command(o) == IF o.raised THEN <<>> ELSE o.stdout

\* Line 113: the stripped non-empty lines of out that mention the domain.
FoundIn(text, D) ==
    {Strip(line) : line \in {l \in Range(SplitLines(text)) :
                                Strip(l) # <<>> /\ Contains(D, l)}}

\* Mutation of AfterRun: the append is missing.
AfterRunNotListed(tools, name) == tools

\* Line 116, available_tools.append(name), after the tool has been run.
AfterRun(tools, name) == Append(tools, name)

\* Mutation of SuffixFilter: `domain in s` instead of s.endswith(domain).
SubstringFilter(subs, D) == {s \in subs : Contains(D, s)}

\* Line 121: set(s for s in all_subdomains if s.endswith(domain)).
SuffixFilter(subs, D) == {s \in subs : EndsWith(s, D)}

\* Mutation of extract_subdomains_level: level + 1 labels instead of level + 2.
extract_one_label_less(subdomains, level) ==
    {JoinDots(LastN(parts, level + 1)) :
        parts \in {p \in {SplitDots(sub) : sub \in subdomains} : Len(p) >= level + 1}}

\* extract_subdomains_level(subdomains, level): parts = sub.split('.'), and the
\* last level + 2 of them joined when there are that many.
extract_subdomains_level(subdomains, level) ==
    {JoinDots(LastN(parts, level + 2)) :
        parts \in {p \in {SplitDots(sub) : sub \in subdomains} : Len(p) >= level + 2}}

\* Mutation of dns_resolve: the outer try/except is missing, so a failed
\* lookup ends the task with the exception.
dns_resolve_uncaught(o) ==
    IF o.host_raised THEN [exc |-> TRUE, ip |-> None, cname |-> None]
    ELSE [exc |-> FALSE, ip |-> Ip, cname |-> IF o.ex_raised THEN None ELSE CName]

\* dns_resolve, as the Future keeps it: the returned (ip, cname), cname None when
\* gethostbyname_ex raised, (None, None) when gethostbyname raised. exc tells
\* whether the call ended with an exception, which future.result() would re-raise.
dns_resolve(o) ==
    IF o.host_raised THEN [exc |-> FALSE, ip |-> None, cname |-> None]
    ELSE [exc |-> FALSE, ip |-> Ip, cname |-> IF o.ex_raised THEN None ELSE CName]

\* http_check: the status code, or None when requests.get raised.
http_check(o) == IF o.raised THEN NoStatus ELSE o.status_code

\* Mutation of IpOk: the test of ip is missing.
IpOkAlways(ip) == TRUE

\* Line 141: `if ip:` (None and "" are false).
IpOk(ip) == ip # None /\ ip # ""

\* Mutation of IsActive: <= 600 instead of < 600.
IsActiveUpTo600(status) == status # NoStatus /\ status # 0 /\ status <= 600

\* Line 144: `if status and status < 600:` (None and 0 are false).
IsActive(status) == status # NoStatus /\ status # 0 /\ status < 600

\* Mutation of StoreUnresolved: nothing is stored for an unresolved candidate.
StoreNothing(data, sub) == data

\* Line 147: the record of a candidate that did not resolve.
StoreUnresolved(data, sub) ==
    (sub :> [ip |-> None, cname |-> None, http_status |-> NoStatus]) @@ data

\* Line 143: the record of a candidate that resolved.
StoreResolved(data, sub, ip, cname, status) ==
    (sub :> [ip |-> ip, cname |-> cname, http_status |-> status]) @@ data

\* ---------------------------------------------------------------- state

VARIABLES
    domain,             \* args.domain
    width,              \* the executor's max_workers
    pc,                 \* where main() is
    tool_idx,           \* position of the for loop over tools.items()
    out,                \* what run_command returned for the tool being merged
    run_raised,         \* whether that run_command logged "Error ejecutando"
    available_tools,
    all_subdomains,
    future_to_sub,      \* candidate -> its Future: state and result
    yielded,            \* the futures as_completed has handed to the loop
    sub,                \* the loop's candidate while http_check runs
    subdomain_data,
    active_subdomains,
    reports,            \* the files written so far: name -> content
    ran_tools,          \* history: tools run_command was called for
    skipped_tools,      \* history: tools found unavailable
    http_calls,         \* history: candidates http_check was called for
    writes,             \* history: candidate -> assignments to subdomain_data[sub]
    dns_failed,         \* history: candidates whose gethostbyname raised
    unfiltered_total,   \* the count logged on line 119, before the filter
    lv_pc,              \* extract_subdomains_level called on its own
    lv_subdomains,
    lv_level,
    lv_result

mainvars == <<domain, width, pc, tool_idx, out, run_raised, available_tools,
              all_subdomains, future_to_sub, yielded, sub, subdomain_data,
              active_subdomains, reports, ran_tools, skipped_tools, http_calls,
              writes, dns_failed, unfiltered_total>>

lvvars == <<lv_pc, lv_subdomains, lv_level, lv_result>>

vars == <<mainvars, lvvars>>

\* No candidate.
NoSub == <<>>

\* The empty dict.
EmptyDict == <<>>

LvIdle ==
    /\ lv_pc = "idle"
    /\ lv_subdomains = {}
    /\ lv_level = 0
    /\ lv_result = {}

\* main() up to the tools loop, for one accepted domain.
MainInit ==
    /\ domain \in Domains
    /\ width \in Widths
    /\ pc = "check"
    /\ tool_idx = 1
    /\ out = <<>>
    /\ run_raised = FALSE
    /\ available_tools = <<>>
    /\ all_subdomains = {}
    /\ future_to_sub = EmptyDict
    /\ yielded = {}
    /\ sub = NoSub
    /\ subdomain_data = EmptyDict
    /\ active_subdomains = EmptyDict
    /\ reports = EmptyDict
    /\ ran_tools = {}
    /\ skipped_tools = {}
    /\ http_calls = {}
    /\ writes = EmptyDict
    /\ dns_failed = {}
    /\ unfiltered_total = 0

Init == MainInit /\ LvIdle

\* -------------------------------------------------------------- actions

NumTools == Len(ToolNames)

\* Line 110: check_tool for the next tool. An unavailable tool is skipped
\* (lines 117-118) and the loop moves on.
CheckTool ==
    /\ pc = "check"
    /\ tool_idx <= NumTools
    /\ \E o \in CheckOutcomes :
        IF check_tool(o)
        THEN /\ pc' = "run"
             /\ UNCHANGED <<tool_idx, skipped_tools>>
        ELSE /\ pc' = "check"
             /\ tool_idx' = tool_idx + 1
             /\ skipped_tools' = skipped_tools \cup {ToolNames[tool_idx]}
    /\ UNCHANGED <<domain, width, out, run_raised, available_tools, all_subdomains,
                   future_to_sub, yielded, sub, subdomain_data, active_subdomains,
                   reports, ran_tools, http_calls, writes, dns_failed, unfiltered_total,
                   lvvars>>

\* Line 112: out = run_command(cmd, name), which blocks until the tool ends.
RunCommand ==
    /\ pc = "run"
    /\ \E o \in RunOutcomes(domain) :
        /\ out' = run_command(o)
        /\ run_raised' = o.raised
    /\ ran_tools' = ran_tools \cup {ToolNames[tool_idx]}
    /\ pc' = "merge"
    /\ UNCHANGED <<domain, width, tool_idx, available_tools, all_subdomains,
                   future_to_sub, yielded, sub, subdomain_data, active_subdomains,
                   reports, skipped_tools, http_calls, writes, dns_failed, unfiltered_total,
                   lvvars>>

\* Lines 113-116: merge the tool's lines and list the tool. out is rebound by
\* the next iteration and never read after line 113.
Merge ==
    /\ pc = "merge"
    /\ all_subdomains' = all_subdomains \cup FoundIn(out, domain)
    /\ available_tools' = AfterRun(available_tools, ToolNames[tool_idx])
    /\ tool_idx' = tool_idx + 1
    /\ out' = <<>>
    /\ run_raised' = FALSE
    /\ pc' = "check"
    /\ UNCHANGED <<domain, width, future_to_sub, yielded, sub, subdomain_data,
                   active_subdomains, reports, ran_tools, skipped_tools, http_calls,
                   writes, dns_failed, unfiltered_total,
                   lvvars>>

\* Line 121: the suffix filter, once the loop over the tools has ended.
Filter ==
    /\ pc = "check"
    /\ tool_idx > NumTools
    /\ unfiltered_total' = Cardinality(all_subdomains)
    /\ all_subdomains' = SuffixFilter(all_subdomains, domain)
    /\ pc' = "submit"
    /\ UNCHANGED <<domain, width, tool_idx, out, run_raised, available_tools,
                   future_to_sub, yielded, sub, subdomain_data, active_subdomains,
                   reports, ran_tools, skipped_tools, http_calls, writes, dns_failed, lvvars>>

\* A Future not yet picked up by a worker.
Pending == [state |-> "pending", result |-> [exc |-> FALSE, ip |-> None, cname |-> None]]

\* Line 137: executor.submit(dns_resolve, sub) for every candidate.
Submit ==
    /\ pc = "submit"
    /\ future_to_sub' = [s \in all_subdomains |-> Pending]
    /\ pc' = "collect"
    /\ UNCHANGED <<domain, width, tool_idx, out, run_raised, available_tools,
                   all_subdomains, yielded, sub, subdomain_data, active_subdomains,
                   reports, ran_tools, skipped_tools, http_calls, writes, dns_failed, unfiltered_total,
                   lvvars>>

\* The candidates whose dns_resolve a worker thread is running.
Running == {s \in DOMAIN future_to_sub : future_to_sub[s].state = "running"}

\* A worker thread is free while fewer than max_workers tasks run.
WorkerFree == Cardinality(Running) < width

\* A free worker takes a queued task (the set's iteration order, hence the
\* queue's order, is arbitrary).
StartDns(s) ==
    /\ s \in DOMAIN future_to_sub
    /\ future_to_sub[s].state = "pending"
    /\ WorkerFree
    /\ future_to_sub' = [future_to_sub EXCEPT ![s].state = "running"]
    /\ UNCHANGED <<domain, width, pc, tool_idx, out, run_raised, available_tools,
                   all_subdomains, yielded, sub, subdomain_data, active_subdomains,
                   reports, ran_tools, skipped_tools, http_calls, writes, dns_failed, unfiltered_total,
                   lvvars>>

\* The worker's dns_resolve returns and the Future is done.
FinishDns(s) ==
    /\ s \in DOMAIN future_to_sub
    /\ future_to_sub[s].state = "running"
    /\ \E o \in ResolverOutcomes :
        /\ future_to_sub' = [future_to_sub EXCEPT ![s] =
                                [state |-> "done", result |-> dns_resolve(o)]]
        /\ dns_failed' = IF o.host_raised THEN dns_failed \cup {s} ELSE dns_failed
    /\ UNCHANGED <<domain, width, pc, tool_idx, out, run_raised, available_tools,
                   all_subdomains, yielded, sub, subdomain_data, active_subdomains,
                   reports, ran_tools, skipped_tools, http_calls, writes, unfiltered_total, lvvars>>

\* as_completed hands over a finished Future it has not handed over yet.
Completed(s) == future_to_sub[s].state = "done" /\ s \notin yielded

\* Lines 138-142 and 146-147: the loop takes a finished Future. future.result()
\* re-raises the task's exception, which nothing catches; with an ip the loop
\* calls http_check in the collecting thread; without, it stores the empty record.
Collect(s) ==
    /\ pc = "collect"
    /\ s \in DOMAIN future_to_sub
    /\ Completed(s)
    /\ yielded' = yielded \cup {s}
    /\ LET r == future_to_sub[s].result
       IN  IF r.exc
           THEN /\ pc' = "aborted"
                /\ UNCHANGED <<sub, http_calls, subdomain_data, writes>>
           ELSE IF IpOk(r.ip)
           THEN /\ pc' = "http"
                /\ sub' = s
                /\ http_calls' = http_calls \cup {s}
                /\ UNCHANGED <<subdomain_data, writes>>
           ELSE /\ pc' = "collect"
                /\ subdomain_data' = StoreUnresolved(subdomain_data, s)
                /\ writes' = (s :> (IF s \in DOMAIN writes THEN writes[s] + 1 ELSE 1))
                                @@ writes
                /\ UNCHANGED <<sub, http_calls>>
    /\ UNCHANGED <<domain, width, tool_idx, out, run_raised, available_tools,
                   all_subdomains, future_to_sub, active_subdomains, reports,
                   ran_tools, skipped_tools, dns_failed, unfiltered_total,
                   lvvars>>

\* Lines 142-145: http_check returns; the record is stored, and copied to the
\* active map when a status below 600 came back.
HttpReturn ==
    /\ pc = "http"
    /\ \E o \in HttpOutcomes :
        LET status == http_check(o)
            r == future_to_sub[sub].result
            data == StoreResolved(subdomain_data, sub, r.ip, r.cname, status)
        IN  /\ subdomain_data' = data
            /\ active_subdomains' =
                 IF IsActive(status) THEN (sub :> data[sub]) @@ active_subdomains
                 ELSE active_subdomains
    /\ writes' = (sub :> (IF sub \in DOMAIN writes THEN writes[sub] + 1 ELSE 1)) @@ writes
    /\ sub' = NoSub
    /\ pc' = "collect"
    /\ UNCHANGED <<domain, width, tool_idx, out, run_raised, available_tools,
                   all_subdomains, future_to_sub, yielded, reports, ran_tools,
                   skipped_tools, http_calls, dns_failed, unfiltered_total,
                   lvvars>>

\* Lines 149-163: the statistics and the metadata.
Metadata ==
    [timestamp |-> "timestamp",
     dominio |-> domain,
     herramientas |-> available_tools,
     estadisticas |->
        [total |-> Cardinality(all_subdomains),
         activos |-> Cardinality(DOMAIN active_subdomains),
         nivel2 |-> Cardinality(extract_subdomains_level(all_subdomains, 2)),
         nivel3 |-> Cardinality(extract_subdomains_level(all_subdomains, 3))]]

\* Lines 168-180: the four files, both JSON files with the same metadata.
ReportFiles(metadata) ==
    [json_full |-> [metadata |-> metadata, subdominios |-> subdomain_data],
     json_act |-> [metadata |-> metadata, subdominios |-> active_subdomains],
     txt_full |-> Sorted(all_subdomains),
     txt_act |-> Sorted(DOMAIN active_subdomains)]

\* Lines 138 and 148-182: as_completed is exhausted, the executor shuts down,
\* and main() computes the metadata once and writes the reports.
WriteReports ==
    /\ pc = "collect"
    /\ yielded = DOMAIN future_to_sub
    /\ \E metadata \in {Metadata} : reports' = ReportFiles(metadata)
    /\ pc' = "done"
    /\ UNCHANGED <<domain, width, tool_idx, out, run_raised, available_tools,
                   all_subdomains, future_to_sub, yielded, sub, subdomain_data,
                   active_subdomains, ran_tools, skipped_tools, http_calls, writes,
                   dns_failed, unfiltered_total, lvvars>>

Next ==
    \/ CheckTool
    \/ RunCommand
    \/ Merge
    \/ Filter
    \/ Submit
    \/ \E s \in DOMAIN future_to_sub : StartDns(s)
    \/ \E s \in DOMAIN future_to_sub : FinishDns(s)
    \/ \E s \in DOMAIN future_to_sub : Collect(s)
    \/ HttpReturn
    \/ WriteReports

Spec == Init /\ [][Next]_vars

\* ------------------------------------ extract_subdomains_level on its own

example_com == <<"e", "x", "a", "m", "p", "l", "e", ".", "c", "o", "m">>

c_example_com == <<"c", ".">> \o example_com

b_c_example_com == <<"b", ".">> \o c_example_com

a_b_c_example_com == <<"a", ".">> \o b_c_example_com

\* Candidate sets the function is called on: subsets of these names.
LvPool == {example_com, c_example_com, b_c_example_com, a_b_c_example_com,
           <<"x", ".">> \o c_example_com, <<"x", ".">> \o a_b_c_example_com}

\* The two levels main() asks for (lines 149-150).
Levels == {2, 3}

\* A call of extract_subdomains_level(subdomains, level) about to be made.
LvInit ==
    /\ MainInit
    /\ domain = testfire_net
    /\ width = max_workers
    /\ lv_pc = "call"
    /\ lv_subdomains \in SUBSET LvPool
    /\ lv_level \in Levels
    /\ lv_result = {}

\* The call returns.
LvCall ==
    /\ lv_pc = "call"
    /\ lv_result' = extract_subdomains_level(lv_subdomains, lv_level)
    /\ lv_pc' = "returned"
    /\ UNCHANGED <<mainvars, lv_subdomains, lv_level>>

LvNext == LvCall

LevelSpec == LvInit /\ [][LvNext]_vars

\* ------------------------------------------------------------- fairness

\* The collecting thread: main().
MainStep ==
    \/ CheckTool
    \/ RunCommand
    \/ Merge
    \/ Filter
    \/ Submit
    \/ \E s \in DOMAIN future_to_sub : Collect(s)
    \/ HttpReturn
    \/ WriteReports

\* The executor's worker threads.
WorkerStep == \E s \in DOMAIN future_to_sub : StartDns(s) \/ FinishDns(s)

\* Both keep running: every external call returns, and a worker that can take
\* or finish a task eventually does.
LiveSpec == Spec /\ WF_vars(MainStep) /\ WF_vars(WorkerStep)

\* ------------------------------------------------------------ properties

\* main() is past the suffix filter of line 121.
AfterFilter == pc \in {"submit", "collect", "http", "done"}

\* The probing phase (lines 136-147) or later.
Probing == pc \in {"collect", "http", "done"}

\* C1: once the suffix filter has been applied, every candidate of the full
\* set -- the set that is probed, recorded, counted in total and written to
\* the reports -- ends with the target domain.
C1_SuffixInvariant ==
    AfterFilter =>
        /\ \A s \in all_subdomains \cup DOMAIN future_to_sub \cup DOMAIN subdomain_data :
              EndsWith(s, domain)
        /\ pc = "done" =>
              /\ \A s \in Range(reports.txt_full) \cup DOMAIN reports.json_full.subdominios :
                    EndsWith(s, domain)
              /\ reports.json_full.metadata.estadisticas.total
                    = Cardinality(Range(reports.txt_full))

\* C1's case: the filter dropped a line that mentions the domain, and the run
\* ended with candidates in the reports.
C1_Witness ==
    /\ pc = "done"
    /\ unfiltered_total > Cardinality(all_subdomains)
    /\ Len(reports.txt_full) >= 2

\* C2: during and after probing the active map's keys are candidates, a
\* candidate with a record is active exactly when the record's http_status
\* is present and below 600, and the active record is the full map's record.
C2_ActiveConsistent ==
    Probing =>
        /\ DOMAIN active_subdomains \subseteq all_subdomains
        /\ DOMAIN active_subdomains \subseteq DOMAIN subdomain_data
        /\ \A s \in DOMAIN subdomain_data :
              s \in DOMAIN active_subdomains
                 <=> /\ subdomain_data[s].http_status # NoStatus
                     /\ subdomain_data[s].http_status < 600
        /\ \A s \in DOMAIN active_subdomains : active_subdomains[s] = subdomain_data[s]

\* C2's case: one candidate answered 200 and is active, another answered 600
\* and is not.
C2_Witness ==
    /\ Probing
    /\ \E s \in DOMAIN active_subdomains : subdomain_data[s].http_status = 200
    /\ \E s \in DOMAIN subdomain_data :
          subdomain_data[s].http_status = 600 /\ s \notin DOMAIN active_subdomains

\* C3: no record is written twice or for a candidate that was not submitted,
\* and when probing has ended the full map holds exactly one record per
\* candidate, whatever the pool's width and the order of completion.
C3_ExactlyNRecords ==
    /\ DOMAIN writes = DOMAIN subdomain_data
    /\ \A s \in DOMAIN writes : writes[s] = 1 /\ s \in DOMAIN future_to_sub
    /\ (pc = "collect" /\ yielded = DOMAIN future_to_sub) \/ pc = "done" =>
          /\ DOMAIN subdomain_data = all_subdomains
          /\ Cardinality(DOMAIN subdomain_data) = Cardinality(all_subdomains)

\* C3's case: three candidates probed by a pool of one worker, some resolved
\* and some not.
C3_Witness ==
    /\ pc = "done"
    /\ width = 1
    /\ Cardinality(all_subdomains) = 3
    /\ dns_failed # {}
    /\ dns_failed # all_subdomains

\* A collected candidate's record is complete: the loop is not inside its
\* http_check.
Recorded(s) == s \in yielded /\ s # sub

\* C4 as stated: a candidate whose lookup failed is recorded with all three
\* fields absent, gets no HTTP check and is never active; one whose lookup
\* succeeded is recorded with its ip, and is active if its HTTP check returned
\* a status code.
C4_AsStated ==
    \A s \in yielded :
        /\ s \in dns_failed =>
              /\ s \in DOMAIN subdomain_data
              /\ subdomain_data[s] = [ip |-> None, cname |-> None, http_status |-> NoStatus]
              /\ s \notin http_calls
              /\ s \notin DOMAIN active_subdomains
        /\ s \notin dns_failed /\ Recorded(s) =>
              /\ s \in DOMAIN subdomain_data
              /\ subdomain_data[s].ip # None
              /\ subdomain_data[s].http_status # NoStatus => s \in DOMAIN active_subdomains

\* C4, amended: as C4_AsStated, but a resolved candidate is active if its HTTP
\* check returned a status code below 600.
C4_DnsFailureRecorded ==
    \A s \in yielded :
        /\ s \in dns_failed =>
              /\ s \in DOMAIN subdomain_data
              /\ subdomain_data[s] = [ip |-> None, cname |-> None, http_status |-> NoStatus]
              /\ s \notin http_calls
              /\ s \notin DOMAIN active_subdomains
        /\ s \notin dns_failed /\ Recorded(s) =>
              /\ s \in DOMAIN subdomain_data
              /\ subdomain_data[s].ip # None
              /\ (subdomain_data[s].http_status # NoStatus
                    /\ subdomain_data[s].http_status < 600) => s \in DOMAIN active_subdomains

\* C4's case: X failed to resolve, Y resolved and answered, and both are in the
\* full map with only Y active.
C4_Witness ==
    \E x, y \in DOMAIN subdomain_data :
        /\ x \in dns_failed
        /\ y \notin dns_failed
        /\ subdomain_data[y].http_status = 200
        /\ DOMAIN active_subdomains = {y}

\* C5: at the end of a run the keys of the full JSON map are the lines of the
\* full TXT report, and those lines are strictly ascending (sorted, no line
\* twice).
C5_CrossFormat ==
    pc = "done" =>
        /\ DOMAIN reports.json_full.subdominios = Range(reports.txt_full)
        /\ \A k \in 1..(Len(reports.txt_full) - 1) :
              StrLess(reports.txt_full[k], reports.txt_full[k + 1])

\* C5's case: a run that wrote three candidates.
C5_Witness == pc = "done" /\ Len(reports.txt_full) = 3

\* The candidates of the call with fewer than level + 2 labels.
LvTooShort == {s \in lv_subdomains : Len(SplitDots(s)) < lv_level + 2}

\* C6 as stated: level 2 on {"a.b.c.example.com"} yields {"c.example.com"}.
C6_AsStated ==
    (lv_pc = "returned" /\ lv_level = 2 /\ lv_subdomains = {a_b_c_example_com})
        => lv_result = {c_example_com}

\* C6, amended: level 2 on "a.b.c.example.com", alone or beside candidates
\* with fewer than four labels such as "example.com", yields
\* {"b.c.example.com"}; whatever the input, no result comes from a candidate
\* with fewer than level + 2 labels.
C6_LevelTwoExample ==
    lv_pc = "returned" =>
        /\ (lv_level = 2 /\ a_b_c_example_com \in lv_subdomains
              /\ lv_subdomains \ {a_b_c_example_com} \subseteq LvTooShort)
              => lv_result = {b_c_example_com}
        /\ \A r \in lv_result :
              /\ Len(SplitDots(r)) = lv_level + 2
              /\ \E s \in lv_subdomains \ LvTooShort : EndsWith(s, r)
        /\ lv_subdomains \subseteq LvTooShort => lv_result = {}

\* C6's case: the call on {"a.b.c.example.com", "example.com"} with level 2
\* has returned.
C6_Witness ==
    /\ lv_pc = "returned"
    /\ lv_level = 2
    /\ lv_subdomains = {a_b_c_example_com, example_com}

\* The tools of the list up to position n that are in set S, in order.
ToolsIn(S, n) == SelectSeq(SubSeq(ToolNames, 1, n), LAMBDA name : name \in S)

\* The number of tools whose iteration of the loop has ended.
ToolsDone == tool_idx - 1

\* C7 as stated, for a failed invocation: the tool whose run_command raised is
\* not in the list after its iteration.
C7_AsStated ==
    [][(pc = "merge" /\ run_raised) => ToolNames[tool_idx] \notin Range(available_tools')]_vars

\* C7, amended: the list holds, in the order of the tools dict, exactly the
\* tools whose availability check passed, each of which was run; a skipped
\* tool is never run nor listed; a tool whose invocation raised is listed all
\* the same; and the list is what the metadata's herramientas holds.
C7_ListedIffAvailable ==
    /\ [](/\ available_tools = ToolsIn(ran_tools, ToolsDone)
          /\ ran_tools \cap skipped_tools = {}
          /\ Range(available_tools) \cap skipped_tools = {}
          /\ pc = "done" =>
                /\ reports.json_full.metadata.herramientas = available_tools
                /\ reports.json_act.metadata.herramientas = available_tools
                /\ ran_tools \cup skipped_tools = Range(ToolNames))
    /\ [][(pc = "merge" /\ run_raised)
            => available_tools' = Append(available_tools, ToolNames[tool_idx])]_vars

\* C7's case: one tool was skipped, one is listed, and the invocation of a
\* third has just raised.
C7_Witness ==
    /\ pc = "merge"
    /\ run_raised
    /\ skipped_tools # {}
    /\ available_tools # <<>>

\* C8: under fair scheduling every run reaches the end of the report stage,
\* and a run that ends with no candidate has empty maps, empty lists and
\* total = 0, activos = 0.
C8_RunCompletes ==
    /\ <>(pc = "done")
    /\ [](pc = "done" /\ all_subdomains = {} =>
            /\ DOMAIN reports.json_full.subdominios = {}
            /\ DOMAIN reports.json_act.subdominios = {}
            /\ reports.txt_full = <<>>
            /\ reports.txt_act = <<>>
            /\ reports.json_full.metadata.estadisticas.total = 0
            /\ reports.json_full.metadata.estadisticas.activos = 0)

\* C8's case: every tool was unavailable and the run ended with no candidate.
C8_Witness ==
    /\ pc = "done"
    /\ skipped_tools = Range(ToolNames)
    /\ all_subdomains = {}
    /\ reports.json_full.metadata.estadisticas.total = 0

\* C9 as stated: a candidate's HTTP check runs inside that candidate's task in
\* the pool, so at most max_workers candidates are being probed at a time.
C9_HttpInsideWorker ==
    pc = "http" =>
        /\ future_to_sub[sub].state = "running"
        /\ Cardinality(Running \cup {sub}) <= width

\* C10 as stated: every candidate that passes the suffix filter is the target
\* domain or <labels>.<target domain>.
C10_OnlySubdomains ==
    AfterFilter =>
        \A s \in all_subdomains : s = domain \/ EndsWith(s, <<".">> \o domain)

====
